---- MODULE Spec2Model ----
(***************************************************************************)
(* The research-session runner of claude-runner: main.py (ClaudeRunner)    *)
(* and claude_sdk_runner.py (ClaudeSDKRunner).  One process runs one       *)
(* session: validate the environment, construct the runner, PUT two        *)
(* Running updates, invoke the agent, PUT Completed or Failed, exit.       *)
(*                                                                         *)
(* The state of one process is a record; every step of the program is an  *)
(* operator from record to record, named after the code it models.  The   *)
(* variable run holds the process; twin holds a second process with the   *)
(* same environment, used only by SpecTwin to compare two runs that differ *)
(* in how the backend answers the PUTs.                                    *)
(*                                                                         *)
(* Text is a sequence of tokens: data the program handles character by    *)
(* character (agent output, diagnostics) is one token per character;      *)
(* literals of the source are one token each.                              *)
(***************************************************************************)
EXTENDS Integers, Sequences, FiniteSets, TLC

VARIABLES run, twin

vars == <<run, twin>>

-----------------------------------------------------------------------------
(* Bounds of the model *)

\* the agent emits at most this many text blocks in one response
MaxBlocks == 2

-----------------------------------------------------------------------------
(* Program constants *)

\* main.py: asyncio.wait_for(run_sdk(), timeout=60.0)
HardTimeout == 60

\* int(os.getenv("TIMEOUT", "300"))
DefaultTimeout == 300

required_vars == {"RESEARCH_SESSION_NAME", "PROMPT", "WEBSITE_URL", "ANTHROPIC_API_KEY"}

-----------------------------------------------------------------------------
(* Inputs *)

Entries == {"main", "sdk"}

\* a value of each required variable when it is set; "" is unset or empty
EnvValue(v) ==
    CASE v = "RESEARCH_SESSION_NAME" -> "session-1"
      [] v = "PROMPT" -> "pricing"
      [] v = "WEBSITE_URL" -> "https://example.com"
      [] v = "ANTHROPIC_API_KEY" -> "sk-key"

\* values of TIMEOUT in the environment: "" is unset; "abc" stands for every
\* text int() refuses
EnvTimeouts == {"", "5", "abc"}

Environments ==
    { [v \in required_vars \cup {"TIMEOUT"} |->
          IF v = "TIMEOUT" THEN t ELSE IF v \in set THEN EnvValue(v) ELSE ""]
      : set \in SUBSET required_vars, t \in EnvTimeouts }

\* text blocks the agent may emit (block.text)
BlockTexts == { <<>>, <<" ">>, <<"o">>, <<"k">> }

\* diagnostic texts of agent errors (str(e), response.error_message)
Diags == { <<>>, <<"b", "o", "o", "m">> }

\* exception classes the agent invocation may raise
ExcClasses == {"RuntimeError", "TimeoutError"}

\* response.result of ClaudeCodeSDK.query
SdkResults == { <<>>, <<" ">>, <<"o", "k">> }

\* how the backend answers a PUT: a status code, or a transport exception
Answers == {"200", "503", "exception"}

-----------------------------------------------------------------------------
(* Text *)

Whitespace == {" "}

RECURSIVE Join(_)
\* "".join(response_text)
Join(blocks) ==
    IF blocks = <<>> THEN <<>> ELSE Head(blocks) \o Join(Tail(blocks))

RECURSIVE LStrip(_)
LStrip(t) ==
    IF t # <<>> /\ Head(t) \in Whitespace THEN LStrip(Tail(t)) ELSE t

RECURSIVE RStrip(_)
RStrip(t) ==
    IF t # <<>> /\ t[Len(t)] \in Whitespace THEN RStrip(SubSeq(t, 1, Len(t) - 1)) ELSE t

\* str.strip()
Strip(t) == RStrip(LStrip(t))

\* needle in text (Python's substring test), token by token: a needle is
\* looked for as the tokens the program would have built it from
Contains(text, needle) ==
    \E i \in 1..(Len(text) - Len(needle) + 1) :
        SubSeq(text, i, i + Len(needle) - 1) = needle

\* int(text) is defined
IsIntText(t) == t \in {"5", "300"}

\* int(text)
ParseInt(t) == CASE t = "5" -> 5 [] t = "300" -> 300

\* str(n) for the timeouts of the model
IntText(n) == CASE n = 5 -> "5" [] n = 60 -> "60" [] n = 300 -> "300"

\* os.getenv(name, default)
getenv(env, name, default) == IF env[name] = "" THEN default ELSE env[name]

-----------------------------------------------------------------------------
(* The state of one process *)

NoOutcome == [kind |-> "none", cls |-> "", text |-> <<>>]

\* the process before main() runs
InitialState(entry, env) ==
    [ entry         |-> entry,        \* which file is the entry point
      env           |-> env,          \* os.environ
      pc            |-> "main",       \* where the process is
      exit_code     |-> 0,            \* the exit code, once pc = "done"
      timeout       |-> 0,            \* self.timeout, once constructed
      updates       |-> <<>>,         \* the status updates PUT so far, in order
      last_answer   |-> "none",       \* "pending" while a PUT is in flight, then its answer
      ret           |-> "none",       \* where the caller of update_session_status continues
      agent         |-> "NotStarted", \* the agent invocation, as the code classifies it
      starts        |-> 0,            \* how many times the agent was started
      elapsed       |-> 0,            \* seconds since the agent was started
      response_text |-> <<>>,         \* run_sdk: response_text
      outcome       |-> NoOutcome,    \* what the agent did
      result        |-> <<>>,         \* the text _run_claude_code returned
      error         |-> <<>>,         \* str(e) of the exception run_research_session caught
      research_prompt |-> <<>>,       \* run_research_session: research_prompt
      sent_prompt   |-> <<>>,         \* the prompt given to client.query / sdk.query
      interrupted   |-> FALSE ]       \* a KeyboardInterrupt reached main()

Done(s) == s.pc = "done"

\* sys.exit(code); also the end of main() (code 0)
sys_exit(s, code) == [s EXCEPT !.pc = "done", !.exit_code = code]

-----------------------------------------------------------------------------
(* main() and the constructor *)

\* a validation that forgets WEBSITE_URL
missing_vars_short(env) == { v \in required_vars \ {"WEBSITE_URL"} : env[v] = "" }

\* missing_vars = [var for var in required_vars if not os.getenv(var)]
missing_vars(env) == { v \in required_vars : env[v] = "" }

\* main(): validate the required environment variables
main_validate(s) ==
    IF missing_vars(s.env) # {}
    THEN sys_exit(s, 1)
    ELSE [s EXCEPT !.pc = "construct"]

\* main(): except Exception around the constructor and the session
main_except_Exception(s) == sys_exit(s, 1)

\* an interrupt handled like any other exception
main_except_KeyboardInterrupt_as_error(s) == sys_exit([s EXCEPT !.interrupted = TRUE], 1)

\* main(): except KeyboardInterrupt
main_except_KeyboardInterrupt(s) == sys_exit([s EXCEPT !.interrupted = TRUE], 0)

\* a constructor that falls back to the default when TIMEOUT is not an integer
Runner_init_default(s) ==
    LET text == getenv(s.env, "TIMEOUT", IntText(DefaultTimeout)) IN
    IF s.env["ANTHROPIC_API_KEY"] = ""
    THEN main_except_Exception(s)
    ELSE [s EXCEPT !.timeout = IF IsIntText(text) THEN ParseInt(text) ELSE DefaultTimeout,
                   !.pc = "session"]

\* ClaudeRunner.__init__ / ClaudeSDKRunner.__init__, called from main()
Runner_init(s) ==
    LET text == getenv(s.env, "TIMEOUT", IntText(DefaultTimeout)) IN
    IF ~IsIntText(text) \/ s.env["ANTHROPIC_API_KEY"] = ""
    THEN main_except_Exception(s)
    ELSE [s EXCEPT !.timeout = ParseInt(text), !.pc = "session"]

\* the code between try: and the handlers of main(), where a KeyboardInterrupt
\* is caught by main()
InMainTry(s) == s.pc \notin {"main", "done"}

-----------------------------------------------------------------------------
(* update_session_status *)

\* the call up to requests.put: the update is on its way to the backend
update_session_status(s, status_update, ret) ==
    [s EXCEPT !.updates = Append(@, status_update),
              !.last_answer = "pending",
              !.ret = ret,
              !.pc = "put"]

\* the caller goes on after update_session_status
Continue(s) ==
    CASE s.ret = "exit_0" -> sys_exit(s, 0)
      [] s.ret = "exit_1" -> sys_exit(s, 1)
      [] OTHER -> [s EXCEPT !.pc = s.ret]

\* an update_session_status that raises when the PUT did not get 200: inside
\* run_research_session's try the exception reaches its handler, inside the
\* handler it reaches main()
update_session_status_raises(s, answer) ==
    IF answer = "200"
    THEN Continue([s EXCEPT !.last_answer = answer])
    ELSE IF s.ret = "exit_1"
         THEN sys_exit([s EXCEPT !.last_answer = answer], 1)
         ELSE [s EXCEPT !.last_answer = answer, !.error = <<"status update failed">>,
                        !.pc = "failed"]

\* an update_session_status that sends the update once more when the PUT did
\* not get 200
update_session_status_retries(s, answer) ==
    IF answer # "200"
       /\ (Len(s.updates) < 2 \/ s.updates[Len(s.updates)] # s.updates[Len(s.updates) - 1])
    THEN [s EXCEPT !.updates = Append(@, s.updates[Len(s.updates)]),
                   !.last_answer = "pending"]
    ELSE Continue([s EXCEPT !.last_answer = answer])

\* requests.put returned or raised: a status other than 200 and an exception
\* are logged, and the call returns
update_session_status_return(s, answer) ==
    Continue([s EXCEPT !.last_answer = answer])

-----------------------------------------------------------------------------
(* run_research_session *)

Now == "now"

InitMessage(s) ==
    IF s.entry = "main"
    THEN <<"Initializing Claude Code with Playwright MCP browser capabilities">>
    ELSE <<"Initializing Claude Code Python SDK with Playwright MCP">>

AnalyzingMessage(s) ==
    <<"Claude Code analyzing ", s.env["WEBSITE_URL"]>>
    \o (IF s.entry = "main" THEN <<" with agentic browser automation">>
                            ELSE <<" with SDK automation">>)

CompletedMessage(s) ==
    IF s.entry = "main"
    THEN <<"Research completed successfully using Claude Code + Playwright MCP">>
    ELSE <<"Research completed successfully using Claude Code Python SDK">>

\* _create_research_prompt: the f-string, self.prompt and self.website_url
\* where it embeds them
create_research_prompt(s) ==
    << "You are a research assistant with browser automation capabilities via Playwright MCP tools. RESEARCH OBJECTIVE: ",
       s.env["PROMPT"],
       " TARGET WEBSITE: ", s.env["WEBSITE_URL"],
       " INSTRUCTIONS: Please use your Playwright MCP browser tools to thoroughly research and analyze the website: ",
       s.env["WEBSITE_URL"],
       " BROWSER AUTOMATION TASKS: ... 3. **Research Objective Analysis** - How well does this website address: \"",
       s.env["PROMPT"],
       "\" ... use them to their fullest extent to gather comprehensive data!" >>

\* the first update: Running, with startTime
status_starting(s) ==
    update_session_status(s,
        [phase |-> "Running", message |-> InitMessage(s), startTime |-> Now],
        "analyzing")

\* a second update that stamps startTime again
status_analyzing_restarted(s) ==
    update_session_status([s EXCEPT !.research_prompt = create_research_prompt(s)],
        [phase |-> "Running", message |-> AnalyzingMessage(s), startTime |-> Now],
        "run_claude_code")

\* the second update: Running
status_analyzing(s) ==
    update_session_status([s EXCEPT !.research_prompt = create_research_prompt(s)],
        [phase |-> "Running", message |-> AnalyzingMessage(s)],
        "run_claude_code")

\* the update after the agent returned: Completed, with the result
status_completed(s) ==
    update_session_status(s,
        [phase |-> "Completed", message |-> CompletedMessage(s),
         completionTime |-> Now, finalOutput |-> s.result],
        "exit_0")

\* a handler that exits without reporting
status_failed_silent(s) == sys_exit(s, 1)

\* except Exception as e: the Failed update, then sys.exit(1)
status_failed(s) ==
    update_session_status(s,
        [phase |-> "Failed", message |-> <<"Research failed: ">> \o s.error,
         completionTime |-> Now],
        "exit_1")

\* _run_claude_code returned text to run_research_session
Return(s, text) ==
    [s EXCEPT !.agent = "Succeeded", !.result = text, !.pc = "completed"]

\* a handler that invokes the agent once more after its first failure
Raise_retry(s, class, message) ==
    IF s.starts < 2
    THEN [s EXCEPT !.agent = class, !.error = message, !.pc = "run_claude_code"]
    ELSE [s EXCEPT !.agent = class, !.error = message, !.pc = "failed"]

\* _run_claude_code raised: run_research_session catches it as e
Raise(s, class, message) ==
    [s EXCEPT !.agent = class, !.error = message, !.pc = "failed"]

-----------------------------------------------------------------------------
(* The agent invocation: _run_claude_code (main.py) and _run_claude_code_sdk *)

TimedOutMessage ==
    <<"Claude Code SDK timed out even in minimal mode - Kubernetes environment issue">>

EmptyResultMessage == <<"Claude Code SDK returned empty result">>

SdkFailedPrefix == <<"Claude Code SDK failed: ">>

\* the text of the error with which ClaudeCodeSDK.query ends at its timeout
SdkTimeoutText == <<"query timed out">>

\* the seconds after which the wait for the agent is given up:
\* main.py waits with asyncio.wait_for(run_sdk(), timeout=60.0),
\* claude_sdk_runner.py passes timeout=self.timeout to sdk.query
WaitLimit(s) == IF s.entry = "main" THEN HardTimeout ELSE s.timeout

\* main.py, run_sdk: simple_prompt
simple_prompt(s) ==
    << "Please analyze this website URL: ", s.env["WEBSITE_URL"],
       " and provide insights about: ", s.env["PROMPT"],
       ". Note: This is a text-only analysis since browser tools are not available in this environment." >>

\* the prompt the agent is given: main.py's run_sdk sends its own
\* simple_prompt and uses the parameter prompt nowhere;
\* claude_sdk_runner.py passes the parameter to sdk.query
query_prompt(s, prompt) ==
    IF s.entry = "main" THEN simple_prompt(s) ELSE prompt

\* the call of _run_claude_code / _run_claude_code_sdk up to the wait for the
\* agent (main.py: the two debug probes, which swallow every exception and
\* change nothing, the options, the client and client.query)
run_claude_code(s) ==
    [s EXCEPT !.agent = "Running", !.starts = @ + 1, !.elapsed = 0,
              !.sent_prompt = query_prompt(s, s.research_prompt),
              !.response_text = <<>>, !.pc = "await"]

\* The program reads the clock only through the limit of its wait, so the
\* clock advances from one instant of interest to the next: the seconds
\* around each timeout of the model.
ClockInstants == {1, 5, 6, 60, 61, 300}

NextInstant(s) ==
    LET later == { i \in ClockInstants \cup {WaitLimit(s)} : i > s.elapsed }
    IN  CHOOSE i \in later : \A j \in later : i <= j

\* time passes while the agent runs
tick(s) == [s EXCEPT !.elapsed = NextInstant(s)]

\* main.py, run_sdk: a text block of the response arrives
receive_text(s, text) == [s EXCEPT !.response_text = Append(@, text)]

\* main.py: except asyncio.TimeoutError / except Exception around wait_for
wait_for_except(s, cls, message) ==
    IF cls = "TimeoutError"
    THEN Raise(s, "TimedOut", TimedOutMessage)
    ELSE Raise(s, "Failed", message)

\* a run_sdk that returns the stripped text
run_sdk_return_stripped(s) ==
    LET result == Join(s.response_text)
        t == [s EXCEPT !.outcome = [kind |-> "returned", cls |-> "", text |-> result]]
    IN  IF Strip(result) = <<>>
        THEN wait_for_except(t, "RuntimeError", EmptyResultMessage)
        ELSE Return(t, Strip(result))

\* main.py, run_sdk: the response ended; join, refuse an empty result, return
run_sdk_return(s) ==
    LET result == Join(s.response_text)
        t == [s EXCEPT !.outcome = [kind |-> "returned", cls |-> "", text |-> result]]
    IN  IF Strip(result) = <<>>
        THEN wait_for_except(t, "RuntimeError", EmptyResultMessage)
        ELSE Return(t, result)

\* main.py: the client or the stream raised an exception of class cls, str(e) = diag
run_sdk_raise(s, cls, diag) ==
    wait_for_except([s EXCEPT !.outcome = [kind |-> "raised", cls |-> cls, text |-> diag]],
                    cls, diag)

\* a wait that gives up without cancelling run_sdk
wait_for_timeout_no_cancel(s) ==
    [ wait_for_except([s EXCEPT !.outcome = [kind |-> "expired", cls |-> "TimeoutError", text |-> <<>>]],
                      "TimeoutError", <<>>)
      EXCEPT !.agent = "Running" ]

\* main.py: wait_for gave up after HardTimeout seconds: it cancels run_sdk and
\* raises asyncio.TimeoutError, whose str() is empty
wait_for_timeout(s) ==
    wait_for_except([s EXCEPT !.outcome = [kind |-> "expired", cls |-> "TimeoutError", text |-> <<>>]],
                    "TimeoutError", <<>>)

SdkResponses ==
    { [is_error |-> TRUE, error_message |-> d, result |-> <<>>] : d \in Diags }
    \cup { [is_error |-> FALSE, error_message |-> <<>>, result |-> r] : r \in SdkResults }

\* claude_sdk_runner.py: what follows response = await sdk.query(...)
sdk_response(s, response) ==
    IF response.is_error
    THEN Raise(s, "Failed", SdkFailedPrefix \o response.error_message)
    ELSE Return(s, response.result)

\* claude_sdk_runner.py: sdk.query returned a response
sdk_query_return(s, response) ==
    sdk_response([s EXCEPT !.outcome =
                     IF response.is_error
                     THEN [kind |-> "error", cls |-> "", text |-> response.error_message]
                     ELSE [kind |-> "returned", cls |-> "", text |-> response.result]],
                 response)

\* claude_sdk_runner.py: except Exception as e: ... raise
sdk_query_raise(s, cls, diag) ==
    Raise([s EXCEPT !.outcome = [kind |-> "raised", cls |-> cls, text |-> diag]],
          "Failed", diag)

\* claude_sdk_runner.py: sdk.query gave up after timeout=self.timeout seconds;
\* the SDK reports it by raising or by an error response
sdk_query_timeout(s, how) ==
    LET t == [s EXCEPT !.outcome = [kind |-> "expired", cls |-> "TimeoutError", text |-> SdkTimeoutText]]
    IN  IF how = "raise"
        THEN Raise(t, "Failed", SdkTimeoutText)
        ELSE sdk_response(t, [is_error |-> TRUE, error_message |-> SdkTimeoutText, result |-> <<>>])

-----------------------------------------------------------------------------
(* Events: the program's own next step, and what the agent, the clock and  *)
(* the operator do to it                                                   *)

Events ==
    { [kind |-> "step"], [kind |-> "tick"], [kind |-> "end"], [kind |-> "interrupt"] }
    \cup { [kind |-> "text", text |-> b] : b \in BlockTexts }
    \cup { [kind |-> "raise", cls |-> c, diag |-> d] : c \in ExcClasses, d \in Diags }
    \cup { [kind |-> "response", response |-> r] : r \in SdkResponses }
    \cup { [kind |-> "timeout", how |-> h] : h \in {"raise", "error"} }

Waiting(s) == s.pc = "await" /\ s.elapsed < WaitLimit(s)

Enabled(s, ev) ==
    CASE ev.kind = "step"      -> s.pc \notin {"await", "done"}
      [] ev.kind = "interrupt" -> InMainTry(s)
      [] ev.kind = "tick"      -> Waiting(s)
      [] ev.kind = "text"      -> Waiting(s) /\ s.entry = "main"
                                  /\ Len(s.response_text) < MaxBlocks
      [] ev.kind = "end"       -> Waiting(s) /\ s.entry = "main"
      [] ev.kind = "raise"     -> Waiting(s)
      [] ev.kind = "response"  -> Waiting(s) /\ s.entry = "sdk"
      [] ev.kind = "timeout"   -> s.pc = "await" /\ s.elapsed = WaitLimit(s)
                                  /\ (s.entry = "main" => ev.how = "raise")

\* the program's next step, by where it is
ProgramStep(s, answer) ==
    CASE s.pc = "main"            -> main_validate(s)
      [] s.pc = "construct"       -> Runner_init(s)
      [] s.pc = "session"         -> status_starting(s)
      [] s.pc = "analyzing"       -> status_analyzing(s)
      [] s.pc = "run_claude_code" -> run_claude_code(s)
      [] s.pc = "completed"       -> status_completed(s)
      [] s.pc = "failed"          -> status_failed(s)
      [] s.pc = "put"             -> update_session_status_return(s, answer)

Apply(s, ev, answer) ==
    CASE ev.kind = "step"      -> ProgramStep(s, answer)
      [] ev.kind = "interrupt" -> main_except_KeyboardInterrupt(s)
      [] ev.kind = "tick"      -> tick(s)
      [] ev.kind = "text"      -> receive_text(s, ev.text)
      [] ev.kind = "end"       -> run_sdk_return(s)
      [] ev.kind = "raise"     -> IF s.entry = "main"
                                  THEN run_sdk_raise(s, ev.cls, ev.diag)
                                  ELSE sdk_query_raise(s, ev.cls, ev.diag)
      [] ev.kind = "response"  -> sdk_query_return(s, ev.response)
      [] ev.kind = "timeout"   -> IF s.entry = "main"
                                  THEN wait_for_timeout(s)
                                  ELSE sdk_query_timeout(s, ev.how)

\* one process reacts to an event; an event that does not concern it leaves it alone
Step(s, ev, answer) == IF Enabled(s, ev) THEN Apply(s, ev, answer) ELSE s

-----------------------------------------------------------------------------
(* The specification of one process *)

InitialStates == { InitialState(e, env) : e \in Entries, env \in Environments }

\* one process; there is no second one
Init ==
    /\ run \in InitialStates
    /\ twin = "none"

Fire(ev, answer) ==
    /\ Enabled(run, ev)
    /\ run' = Apply(run, ev, answer)
    /\ UNCHANGED twin

Main == run.pc = "main" /\ Fire([kind |-> "step"], "none")

Construct == run.pc = "construct" /\ Fire([kind |-> "step"], "none")

StatusStarting == run.pc = "session" /\ Fire([kind |-> "step"], "none")

StatusAnalyzing == run.pc = "analyzing" /\ Fire([kind |-> "step"], "none")

PutReturn == run.pc = "put" /\ \E a \in Answers : Fire([kind |-> "step"], a)

RunClaudeCode == run.pc = "run_claude_code" /\ Fire([kind |-> "step"], "none")

Tick == run.pc = "await" /\ Fire([kind |-> "tick"], "none")

ReceiveText == run.pc = "await" /\ \E b \in BlockTexts : Fire([kind |-> "text", text |-> b], "none")

EndOfResponse == run.pc = "await" /\ Fire([kind |-> "end"], "none")

AgentRaises ==
    run.pc = "await" /\ \E c \in ExcClasses, d \in Diags : Fire([kind |-> "raise", cls |-> c, diag |-> d], "none")

SdkResponds == run.pc = "await" /\ \E r \in SdkResponses : Fire([kind |-> "response", response |-> r], "none")

Timeout == run.pc = "await" /\ \E h \in {"raise", "error"} : Fire([kind |-> "timeout", how |-> h], "none")

StatusCompleted == run.pc = "completed" /\ Fire([kind |-> "step"], "none")

StatusFailed == run.pc = "failed" /\ Fire([kind |-> "step"], "none")

KeyboardInterrupt == InMainTry(run) /\ Fire([kind |-> "interrupt"], "none")

Next ==
    \/ Main
    \/ Construct
    \/ StatusStarting
    \/ StatusAnalyzing
    \/ PutReturn
    \/ RunClaudeCode
    \/ Tick
    \/ ReceiveText
    \/ EndOfResponse
    \/ AgentRaises
    \/ SdkResponds
    \/ Timeout
    \/ StatusCompleted
    \/ StatusFailed
    \/ KeyboardInterrupt

Spec == Init /\ [][Next]_vars

-----------------------------------------------------------------------------
(* Two processes with the same environment, agent, clock and operator,     *)
(* whose PUTs the backend answers independently                            *)

InitTwin ==
    /\ run \in InitialStates
    /\ twin = run

\* both take their next step; a PUT that returns gets its own answer
TwinProgramStep ==
    LET ev == [kind |-> "step"] IN
    /\ Enabled(run, ev) \/ Enabled(twin, ev)
    /\ \E a1 \in (IF run.pc = "put" THEN Answers ELSE {"none"}),
          a2 \in (IF twin.pc = "put" THEN Answers ELSE {"none"}) :
            /\ run' = Step(run, ev, a1)
            /\ twin' = Step(twin, ev, a2)

\* the agent, the clock or the operator acts on both
TwinEvent ==
    \E ev \in Events \ {[kind |-> "step"]} :
        /\ Enabled(run, ev) \/ Enabled(twin, ev)
        /\ run' = Step(run, ev, "none")
        /\ twin' = Step(twin, ev, "none")

NextTwin == TwinProgramStep \/ TwinEvent

SpecTwin == InitTwin /\ [][NextTwin]_vars

-----------------------------------------------------------------------------
(* Properties *)

Terminal == {"Completed", "Failed"}

\* the positions of the updates with a phase among phases
Attempted(s, phases) == { i \in 1..Len(s.updates) : s.updates[i].phase \in phases }

LastUpdate(s) == s.updates[Len(s.updates)]

\* the required variables, as the specification lists them
SomeRequiredMissing(s) ==
    \E v \in {"RESEARCH_SESSION_NAME", "PROMPT", "WEBSITE_URL", "ANTHROPIC_API_KEY"} :
        s.env[v] = ""

-----------------------------------------------------------------------------
(* C1 *)

\* C1: in a session whose agent was invoked, the first update attempted is
\* Running, no update follows a terminal update, and when the process has
\* exited exactly one terminal update (Completed or Failed) was attempted;
\* on every path, an operator interrupt while the agent runs included.
C1_OneTerminalUpdate ==
    run.agent # "NotStarted" =>
        /\ run.updates[1].phase = "Running"
        /\ \A i \in Attempted(run, Terminal) : i = Len(run.updates)
        /\ Done(run) => Cardinality(Attempted(run, Terminal)) = 1

-----------------------------------------------------------------------------
(* C2 *)

\* C2: when the agent invocation finishes without an error and its captured
\* output is empty, no Completed update is attempted, and a process that runs
\* to its end attempted a Failed update and exits with code 1; for both
\* entry points.
C2_EmptyOutputFails ==
    (run.outcome.kind = "returned" /\ run.outcome.text = <<>>) =>
        /\ Attempted(run, {"Completed"}) = {}
        /\ (Done(run) /\ ~run.interrupted) =>
              /\ Attempted(run, {"Failed"}) # {}
              /\ run.exit_code = 1

-----------------------------------------------------------------------------
(* C3 *)

\* C3: with TIMEOUT = T, the agent is never still awaited more than T seconds
\* after its start, the wait is given up exactly at T seconds, and a process
\* whose wait was given up and that runs to its end has Failed as its last
\* update and a non-zero exit code.
C3_ConfiguredTimeout ==
    /\ run.pc = "await" => run.elapsed <= run.timeout
    /\ run.outcome.kind = "expired" => run.elapsed = run.timeout
    /\ (run.outcome.kind = "expired" /\ Done(run) /\ ~run.interrupted) =>
          /\ run.updates # <<>>
          /\ LastUpdate(run).phase = "Failed"
          /\ run.exit_code # 0

-----------------------------------------------------------------------------
(* C4 *)

\* C4: in main.py, when the wait for the agent was given up, the message of
\* the Failed update contains "timed out after T seconds", T the configured
\* TIMEOUT.
C4_TimeoutMessage ==
    (run.entry = "main" /\ run.outcome.kind = "expired") =>
        \A i \in Attempted(run, {"Failed"}) :
            Contains(run.updates[i].message,
                     <<"timed out after ", IntText(run.timeout), " seconds">>)

-----------------------------------------------------------------------------
(* C5 *)

\* what a run shows of itself, the backend's answers left out
Observation(s) ==
    [ pc |-> s.pc, phases |-> [i \in 1..Len(s.updates) |-> s.updates[i].phase],
      updates |-> s.updates, starts |-> s.starts, agent |-> s.agent,
      exit_code |-> s.exit_code ]

\* C5: two runs with the same environment, agent, clock and operator, whose
\* PUTs the backend answers differently, attempt the same updates, invoke the
\* agent alike, classify the outcome alike and exit with the same code; a
\* Running update answered by anything but 200 is followed by the invocation
\* of the agent, and a Completed update answered by anything but 200 by exit
\* code 0 with no Failed update.
C5_AnswersDoNotMatter ==
    /\ Observation(run) = Observation(twin)
    /\ \A s \in {run, twin} :
          /\ (Len(s.updates) = 1 /\ s.last_answer \in Answers /\ ~s.interrupted)
                => s.pc = "analyzing"
          /\ (Len(s.updates) = 2 /\ s.last_answer \in Answers /\ ~s.interrupted)
                => (s.pc = "run_claude_code" \/ s.starts = 1)
          /\ (Done(s) /\ s.updates # <<>> /\ LastUpdate(s).phase = "Completed"
                /\ s.last_answer \in Answers)
                => (s.exit_code = 0 /\ Attempted(s, {"Failed"}) = {})

\* one run's Completed update got 503, the other's 200, and both have exited
C5_Witness ==
    /\ Done(run) /\ Done(twin)
    /\ run.updates # <<>> /\ LastUpdate(run).phase = "Completed"
    /\ run.last_answer = "503" /\ twin.last_answer = "200"
    /\ run.exit_code = 0

-----------------------------------------------------------------------------
(* C6 *)

\* C6: with a required environment variable unset or empty, the process goes
\* from main() straight to exit code 1: no status update is attempted and the
\* agent is never invoked.
C6_MissingVariable ==
    SomeRequiredMissing(run) =>
        /\ run.pc \in {"main", "done"}
        /\ run.updates = <<>>
        /\ run.starts = 0 /\ run.agent = "NotStarted"
        /\ Done(run) => run.exit_code = 1

\* a process with only WEBSITE_URL missing has exited
C6_Witness ==
    /\ Done(run) /\ run.exit_code = 1
    /\ { v \in required_vars : run.env[v] = "" } = {"WEBSITE_URL"}

-----------------------------------------------------------------------------
(* C7 *)

\* C7: when the agent invocation failed with an error carrying a diagnostic
\* text (an exception's message, an error response's message), the message of
\* every Failed update attempted contains that text.
C7_DiagnosticInMessage ==
    run.outcome.kind \in {"raised", "error"} =>
        \A i \in Attempted(run, {"Failed"}) :
            Contains(run.updates[i].message, run.outcome.text)

-----------------------------------------------------------------------------
(* C8 *)

\* the text the agent emitted: main.py collects the text blocks in arrival
\* order, claude_sdk_runner.py takes response.result
CapturedText(s) ==
    IF s.entry = "main" THEN Join(s.response_text) ELSE s.outcome.text

\* C8 as stated: when the agent finished without error with non-empty output
\* and the process ran to its end, a Completed update whose finalOutput is
\* the captured text was attempted and the exit code is 0.
C8_NonEmptyOutputCompletes ==
    (run.outcome.kind = "returned" /\ CapturedText(run) # <<>>
        /\ Done(run) /\ ~run.interrupted) =>
        /\ \E i \in Attempted(run, {"Completed"}) :
              run.updates[i].finalOutput = CapturedText(run)
        /\ run.exit_code = 0

\* C8, amended: when the agent finished without error with output that is not
\* blank, no Failed update is attempted, every Completed update attempted
\* carries exactly the captured text as finalOutput, the exit code is 0, and
\* the Completed update is the last update of every process that ran to its
\* end without an interrupt.
C8_NonBlankOutputCompletes ==
    (run.outcome.kind = "returned" /\ Strip(CapturedText(run)) # <<>>) =>
        /\ Attempted(run, {"Failed"}) = {}
        /\ \A i \in Attempted(run, {"Completed"}) :
              run.updates[i].finalOutput = CapturedText(run)
        /\ Done(run) => run.exit_code = 0
        /\ (Done(run) /\ ~run.interrupted) =>
              (run.updates # <<>> /\ LastUpdate(run).phase = "Completed")

\* main.py: the agent emitted the blocks "o" and "k", and the Completed
\* update carried "ok"
C8_Witness ==
    /\ Done(run) /\ run.entry = "main" /\ run.exit_code = 0
    /\ run.response_text = << <<"o">>, <<"k">> >>
    /\ LastUpdate(run).phase = "Completed"
    /\ LastUpdate(run).finalOutput = <<"o", "k">>

-----------------------------------------------------------------------------
(* C9 *)

\* the process failed: a required variable is missing, TIMEOUT is no integer,
\* or the agent invocation raised
ProcessFailed(s) ==
    \/ SomeRequiredMissing(s)
    \/ ~IsIntText(getenv(s.env, "TIMEOUT", "300"))
    \/ s.agent \in {"Failed", "TimedOut"}

-----------------------------------------------------------------------------
(* C10 *)

\* C10 as stated: a process that exits after a configuration error or an
\* invocation error attempted a Failed update, whose PUT returned or failed,
\* before it exited.
C10_ReportBeforeExit ==
    (Done(run) /\ ~run.interrupted /\ ProcessFailed(run)) =>
        /\ run.updates # <<>>
        /\ LastUpdate(run).phase = "Failed"
        /\ run.last_answer \in Answers

\* C10, amended: a process exits with code 1 after an invocation error only
\* when its last update is a Failed update whose PUT returned or failed, and
\* after a configuration error without any status update; an invocation
\* error is followed by no other exit than code 1 or an operator interrupt.
C10_InvocationErrorReported ==
    /\ (Done(run) /\ run.exit_code = 1) =>
          IF run.agent \in {"Failed", "TimedOut"}
          THEN /\ run.updates # <<>>
               /\ LastUpdate(run).phase = "Failed"
               /\ run.last_answer \in Answers
          ELSE /\ run.updates = <<>>
               /\ run.starts = 0
    /\ (Done(run) /\ run.agent \in {"Failed", "TimedOut"}) =>
          (run.exit_code = 1 \/ run.interrupted)

\* the wait for the agent was given up, the Failed PUT raised, the process
\* has exited with code 1
C10_Witness ==
    /\ Done(run) /\ run.exit_code = 1
    /\ run.outcome.kind = "expired"
    /\ LastUpdate(run).phase = "Failed"
    /\ run.last_answer = "exception"

-----------------------------------------------------------------------------
(* C11 *)

AgentTerminal == {"Succeeded", "Failed", "TimedOut"}

\* a step of the agent invocation that its state machine allows
AgentMoves(from, to) ==
    \/ to = from
    \/ from = "NotStarted" /\ to = "Running"
    \/ from = "Running" /\ to \in AgentTerminal

\* C11: within one process the agent is started at most once, its state
\* moves only NotStarted -> Running -> Succeeded, Failed or TimedOut, and a
\* state of these three never changes again: no retry after any failure.
C11_SingleShot ==
    [][ /\ AgentMoves(run.agent, run'.agent)
        /\ run'.starts <= 1
        /\ run'.starts >= run.starts
        /\ (run'.starts = 1) = (run'.agent # "NotStarted") ]_vars

\* the agent failed, the failure was reported and the process has exited
\* with the agent started once
C11_Witness ==
    /\ Done(run) /\ run.exit_code = 1
    /\ run.agent = "Failed" /\ run.starts = 1
    /\ run.outcome.kind = "raised"

-----------------------------------------------------------------------------
(* C12 *)

\* the phases of a whole session, in order
Lifecycle == { <<"Running", "Running", "Completed">>, <<"Running", "Running", "Failed">> }

PhasesOf(s) == [i \in 1..Len(s.updates) |-> s.updates[i].phase]

IsPrefix(p, q) == Len(p) <= Len(q) /\ SubSeq(q, 1, Len(p)) = p

\* C12: no update is PUT twice and none is sent to make up for another: the
\* PUTs of a process are the beginning of Running, Running, terminal, each
\* update differs from every other, a PUT that returns (200, another status
\* or an exception) issues no PUT, and a process that invoked the agent and
\* ran to its end without an interrupt issued exactly three PUTs.
C12_NoRetry ==
    [][ /\ \E l \in Lifecycle : IsPrefix(PhasesOf(run'), l)
        /\ \A i, j \in 1..Len(run'.updates) : run'.updates[i] = run'.updates[j] => i = j
        /\ (run.pc = "put" /\ run'.last_answer \in Answers) => run'.updates = run.updates
        /\ Len(run'.updates) <= Len(run.updates) + 1
        /\ (Done(run') /\ ~run'.interrupted /\ run'.starts = 1) => Len(run'.updates) = 3 ]_vars

\* the PUT of the Failed update raised, and the process has exited after
\* three PUTs
C12_Witness ==
    /\ Done(run) /\ Len(run.updates) = 3
    /\ LastUpdate(run).phase = "Failed"
    /\ run.last_answer = "exception"

-----------------------------------------------------------------------------
(* C13 *)

\* C13: once the wait for the agent was given up, the agent is no longer
\* running and adds nothing to the captured output, before and after the
\* Failed update is attempted; and the Failed update carries no finalOutput:
\* what was read before the timeout is not salvaged.
C13_KilledOnTimeout ==
    [][ run'.outcome.kind = "expired" =>
          /\ run'.agent \in {"TimedOut", "Failed"}
          /\ run.outcome.kind = "expired" =>
                (run'.response_text = run.response_text /\ run'.agent = run.agent)
          /\ Attempted(run', {"Completed"}) = {}
          /\ \A i \in Attempted(run', {"Failed"}) :
                "finalOutput" \notin DOMAIN run'.updates[i] ]_vars

\* main.py: the agent had emitted "o" when the wait was given up; the Failed
\* update was attempted and the process has exited
C13_Witness ==
    /\ Done(run) /\ run.entry = "main" /\ run.outcome.kind = "expired"
    /\ run.response_text = << <<"o">> >>
    /\ LastUpdate(run).phase = "Failed"
    /\ run.agent = "TimedOut"

-----------------------------------------------------------------------------
(* C14 *)

\* C14: the prompt the agent receives is the prompt that
\* _create_research_prompt built and run_research_session passed into the
\* run operation, in both entry points.
C14_PromptSent ==
    run.starts > 0 =>
        /\ run.research_prompt = create_research_prompt(run)
        /\ run.sent_prompt = run.research_prompt

-----------------------------------------------------------------------------
(* C15 *)

FailedPrefix == "Research failed: "

WellShaped(u, i) ==
    /\ ("finalOutput" \in DOMAIN u) <=> (u.phase = "Completed")
    /\ ("completionTime" \in DOMAIN u) <=> (u.phase \in {"Completed", "Failed"})
    /\ ("startTime" \in DOMAIN u) => (i = 1 /\ u.phase = "Running")
    /\ {"phase", "message"} \subseteq DOMAIN u
    /\ u.phase = "Failed" => (Len(u.message) >= 1 /\ u.message[1] = FailedPrefix)

\* C15: every status update attempted has finalOutput exactly when its phase
\* is Completed, completionTime exactly when its phase is Completed or
\* Failed, startTime only when it is the first update, which is Running, and
\* a message, which begins with "Research failed: " when the phase is Failed.
C15_UpdateShape ==
    \A i \in 1..Len(run.updates) : WellShaped(run.updates[i], i)

\* the three updates of a session whose agent returned nothing: Running with
\* startTime, Running, Failed with the message of the empty result
C15_Witness ==
    /\ Done(run) /\ Len(run.updates) = 3
    /\ "startTime" \in DOMAIN run.updates[1]
    /\ run.updates[3].phase = "Failed"
    /\ run.updates[3].message = <<FailedPrefix>> \o EmptyResultMessage

-----------------------------------------------------------------------------
(* C16 *)

\* every required variable is set and TIMEOUT is set to a text that int()
\* refuses
ConstructorFails(s) ==
    /\ \A v \in required_vars : s.env[v] # ""
    /\ s.env["TIMEOUT"] # ""
    /\ ~IsIntText(s.env["TIMEOUT"])

\* C16: when every required variable is set and TIMEOUT is not an integer,
\* no status update is ever attempted and the agent is never started; the
\* process gets no further than the constructor, and once the constructor
\* has failed it has exited with code 1.
C16_ConstructorFailure ==
    ConstructorFails(run) =>
        /\ run.updates = <<>>
        /\ run.starts = 0 /\ run.agent = "NotStarted"
        /\ run.pc \in {"main", "construct", "done"}
        /\ (Done(run) /\ ~run.interrupted) => run.exit_code = 1

\* TIMEOUT is "abc", the constructor raised ValueError and main() has exited
C16_Witness ==
    /\ ConstructorFails(run) /\ run.env["TIMEOUT"] = "abc"
    /\ Done(run) /\ ~run.interrupted /\ run.exit_code = 1
    /\ run.updates = <<>> /\ run.starts = 0

====
